---- MODULE Spec2Model ----
(***************************************************************************)
(* A model of wander/wander.py: the Wandbox client's session lifecycle     *)
(* (Wandbox.connect, Wandbox.close, the class-level registry               *)
(* Wandbox.active and the atexit hook _disconnect) and its request         *)
(* dispatcher (_get, _post, _parse_response and the endpoint methods).     *)
(*                                                                         *)
(* Library behaviour the source relies on, as the model takes it:          *)
(*  - aiohttp.ClientSession.closed is True from the moment close() is      *)
(*    entered; `await session.close()` may suspend before it returns.      *)
(*  - a request on a closed ClientSession raises RuntimeError.             *)
(*  - ClientResponse.raise_for_status() raises when 400 <= status.         *)
(*  - ndjson.Decoder.decode joins the lines of the text with commas,       *)
(*    wraps them in brackets and decodes the result as one JSON array.     *)
(*  - asyncio.gather (return_exceptions unset) hands the first exception   *)
(*    to its awaiter at once; asyncio.run cancels the tasks still pending. *)
(***************************************************************************)
EXTENDS Integers, Sequences, FiniteSets, TLC

\* ---------------------------------------------------------------- bounds
NumInst == 2
MaxSessions == 2
MaxPending == 1
MaxLines == 2

Inst == 1..NumInst
Handles == 1..MaxSessions
None == 0

VARIABLES
  session,   \* session[i]: self.session of instance i (None before __init__)
  openT,     \* openT[i]: the ClientSession objects made by i with closed = False
  active,    \* Wandbox.active
  closing,   \* closing[i]: close() coroutines of i suspended at `await self.session.close()`
  phase,     \* "run": the program runs; "exit": _disconnect runs; "returned" / "raised": it ended
  hookList,  \* the coroutines [s.close() for s in Wandbox.active], in order
  htask,     \* htask[i]: state of the gather task closing instance i
  failed,    \* some close() has ended with an exception
  last       \* the operation that ran last, and what it handed back

vars == <<session, openT, active, closing, phase, hookList, htask, failed, last>>

\* ------------------------------------------------------------- helpers
Range(s) == {s[k] : k \in 1..Len(s)}

Count(s, x) == Cardinality({k \in 1..Len(s) : s[k] = x})

Min(S) == CHOOSE x \in S : \A y \in S : x <= y

\* list.remove(x): drops the first occurrence of x
Remove(s, x) ==
  LET k == Min({n \in 1..Len(s) : s[n] = x})
  IN  [n \in 1..(Len(s) - 1) |-> IF n < k THEN s[n] ELSE s[n + 1]]

\* self in Wandbox.active
Registered(i) == i \in Range(active)

\* self.session.closed
Closed(i) == session[i] \notin openT[i]

\* a ClientSession object distinct from every open one and from the current one
FreeHandles(i) == Handles \ (openT[i] \cup {session[i]})

NewSession(i) == Min(FreeHandles(i))

\* ------------------------------------------------- values and responses
\* Decoded Python values. A str, a dict (items: key -> value) and a list.
NoValue == [kind |-> "none"]
Str(t) == [kind |-> "str", s |-> t]
Dict(m) == [kind |-> "dict", items |-> m]
List(q) == [kind |-> "list", elems |-> q]

NoResp == [status |-> 0, ctype |-> "", body |-> <<>>]
NoOut == [kind |-> "none", decoded |-> FALSE, value |-> NoValue]

\* what an operation that is no endpoint call leaves in `last`
Op(name, i) == [op |-> name, inst |-> i, method |-> "", resp |-> NoResp, out |-> NoOut]

\* ------------------------------------------------------ Wandbox.connect
\* lines 27-28 and 31-32: the session object after connect()
ConnectSession(i) ==
  IF session[i] = None \/ Closed(i)
  THEN /\ session' = [session EXCEPT ![i] = NewSession(i)]
       /\ openT' = [openT EXCEPT ![i] = @ \cup {NewSession(i)}]
  ELSE UNCHANGED <<session, openT>>

\* connect() that registers the instance without looking for it
ConnectRegisterAlways(i) == active' = Append(active, i)

\* lines 29 and 33-34: the registry after connect()
ConnectRegister(i) ==
  IF session[i] = None \/ ~Registered(i)
  THEN active' = Append(active, i)
  ELSE UNCHANGED active

\* Wandbox.__init__: self.session = None; self.connect()
Construct(i) ==
  /\ phase = "run"
  /\ session[i] = None
  /\ FreeHandles(i) # {}
  /\ ConnectSession(i)
  /\ ConnectRegister(i)
  /\ last' = Op("init", i)
  /\ UNCHANGED <<closing, phase, hookList, htask, failed>>

\* Wandbox.connect on a constructed instance
Connect(i) ==
  /\ phase = "run"
  /\ session[i] # None
  /\ FreeHandles(i) # {}
  /\ ConnectSession(i)
  /\ ConnectRegister(i)
  /\ last' = Op("connect", i)
  /\ UNCHANGED <<closing, phase, hookList, htask, failed>>

\* -------------------------------------------------------- Wandbox.close
\* the guard without its test of session.closed
CloseGuardNoClosedTest(i) == session[i] # None

\* line 42
CloseGuard(i) == session[i] # None /\ ~Closed(i)

\* line 43, up to the suspension: the session reports closed
SessionClose(i) == openT' = [openT EXCEPT ![i] = @ \ {session[i]}]

\* a removal that drops the head of the list, whoever it is
RegistryPop(i) == active' = Tail(active)

\* line 44: Wandbox.active.remove(self); ValueError when self is not in the list
RegistryRemove(i) == active' = Remove(active, i)

\* close() from its call to the await of line 43, or to its return when the
\* guard of line 42 is false
CloseBegin(i) ==
  /\ phase = "run"
  /\ session[i] # None
  /\ IF CloseGuard(i)
     THEN /\ closing[i] < MaxPending
          /\ SessionClose(i)
          /\ closing' = [closing EXCEPT ![i] = @ + 1]
     ELSE UNCHANGED <<openT, closing>>
  /\ last' = Op("close", i)
  /\ UNCHANGED <<session, active, phase, hookList, htask, failed>>

\* close() resumed after the await: line 44
CloseResume(i) ==
  /\ phase = "run"
  /\ closing[i] > 0
  /\ closing' = [closing EXCEPT ![i] = @ - 1]
  /\ IF Registered(i)
     THEN RegistryRemove(i) /\ last' = Op("close_done", i) /\ UNCHANGED failed
     ELSE UNCHANGED active /\ last' = Op("close_error", i) /\ failed' = TRUE
  /\ UNCHANGED <<session, openT, phase, hookList, htask>>

\* the await of line 43 ends with an exception (session.close() raises, or the
\* task is cancelled): line 44 does not run
CloseFail(i) ==
  /\ phase = "run"
  /\ closing[i] > 0
  /\ closing' = [closing EXCEPT ![i] = @ - 1]
  /\ last' = Op("close_error", i)
  /\ failed' = TRUE
  /\ UNCHANGED <<session, openT, active, phase, hookList, htask>>

\* ---------------------------------------------------------- _disconnect
\* line 341, the list comprehension: one close() coroutine per entry of
\* Wandbox.active, made before any of them runs; gather wraps each in a task.
\* The hook runs at interpreter exit, when the program's own coroutines are over.
HookStart ==
  /\ phase = "run"
  /\ \A i \in Inst : closing[i] = 0
  /\ phase' = "exit"
  /\ hookList' = active
  /\ htask' = [i \in Inst |-> IF Registered(i) THEN "ready" ELSE "none"]
  /\ last' = Op("atexit", None)
  /\ UNCHANGED <<session, openT, active, closing, failed>>

\* the task the event loop starts next: tasks start in the order gather made them
NextReady == hookList[Min({k \in 1..Len(hookList) : htask[hookList[k]] = "ready"})]

\* a gather task runs close() to the await of line 43, or to its return when the
\* guard of line 42 is false
HookStep(i) ==
  /\ phase = "exit"
  /\ htask[i] = "ready"
  /\ i = NextReady
  /\ IF CloseGuard(i)
     THEN SessionClose(i) /\ htask' = [htask EXCEPT ![i] = "awaiting"]
     ELSE UNCHANGED openT /\ htask' = [htask EXCEPT ![i] = "done"]
  /\ last' = Op("atexit", i)
  /\ UNCHANGED <<session, active, closing, phase, hookList, failed>>

\* a gather task resumes after the await: line 44
HookResume(i) ==
  /\ phase = "exit"
  /\ htask[i] = "awaiting"
  /\ IF Registered(i)
     THEN RegistryRemove(i) /\ htask' = [htask EXCEPT ![i] = "done"] /\ UNCHANGED failed
     ELSE UNCHANGED active /\ htask' = [htask EXCEPT ![i] = "failed"] /\ failed' = TRUE
  /\ last' = Op("atexit", i)
  /\ UNCHANGED <<session, openT, closing, phase, hookList>>

\* the await of line 43 raises in a gather task
HookFail(i) ==
  /\ phase = "exit"
  /\ htask[i] = "awaiting"
  /\ htask' = [htask EXCEPT ![i] = "failed"]
  /\ failed' = TRUE
  /\ last' = Op("atexit", i)
  /\ UNCHANGED <<session, openT, active, closing, phase, hookList>>

\* gather's result once every task has ended without an exception: shutdown()
\* and asyncio.run return
HookReturn ==
  /\ phase = "exit"
  /\ \A i \in Inst : htask[i] \in {"none", "done"}
  /\ phase' = "returned"
  /\ last' = Op("atexit", None)
  /\ UNCHANGED <<session, openT, active, closing, hookList, htask, failed>>

\* lines 342-343 and 345: gather hands the first exception to shutdown(), which
\* re-raises it; asyncio.run then cancels the tasks that have not ended. Every
\* task has run its first step by then: the tasks were scheduled before the
\* callback that reports the failure.
HookRaise ==
  /\ phase = "exit"
  /\ \E i \in Inst : htask[i] = "failed"
  /\ \A i \in Inst : htask[i] # "ready"
  /\ phase' = "raised"
  /\ htask' = [i \in Inst |-> IF htask[i] = "awaiting" THEN "cancelled" ELSE htask[i]]
  /\ last' = Op("atexit", None)
  /\ UNCHANGED <<session, openT, active, closing, hookList, failed>>

\* ------------------------------------------------------ response bodies
\* A body is a sequence of lines and a line a sequence of tokens: a token is
\* the text of one JSON document, a comma, or an unfinished document.
DocStr == "\"hello\""
DocEnvelope == "{\"code\": \"hello\"}"
DocError == "{\"error\": \"x\"}"
DocNested == "{\"code\": {\"error\": \"x\"}}"
Comma == ","
Truncated == "{"

Docs == {DocStr, DocEnvelope, DocError, DocNested}

\* what the JSON decoder makes of one document
DecodeDoc(tok) ==
  CASE tok = DocStr -> Str("hello")
    [] tok = DocEnvelope -> Dict([code |-> Str("hello")])
    [] tok = DocError -> Dict([error |-> Str("x")])
    [] tok = DocNested -> Dict([code |-> Dict([error |-> Str("x")])])

Lines == {<<d>> : d \in Docs} \cup {<<Truncated>>, <<DocStr, Comma, DocStr>>}

Bodies == UNION {[1..n -> Lines] : n \in 1..MaxLines}

Statuses == {200, 304, 404, 500}

ContentTypes == {"application/json", "application/x-ndjson", "text/plain"}

Responses == [status : Statuses, ctype : ContentTypes, body : Bodies]

\* the calls the lifecycle specification draws from: one through _get, one
\* through _post, the remote answering with a template envelope
SampleResponses ==
  {[status |-> 200, ctype |-> "application/json", body |-> <<<<DocEnvelope>>>>]}

Value(v) == [kind |-> "value", decoded |-> TRUE, value |-> v]
Raise(e, d) == [kind |-> e, decoded |-> d, value |-> NoValue]

\* ','.join(lines)
RECURSIVE JoinLines(_)
JoinLines(body) ==
  IF Len(body) = 1 THEN body[1]
  ELSE body[1] \o <<Comma>> \o JoinLines(Tail(body))

\* '\n'.join(lines): the line break is white space to the JSON decoder
RECURSIVE ConcatLines(_)
ConcatLines(body) ==
  IF Len(body) = 1 THEN body[1]
  ELSE body[1] \o ConcatLines(Tail(body))

\* ndjson.Decoder().decode: json-decodes '[' + ','.join(s.splitlines()) + ']'
NdjsonDecode(body) ==
  LET toks == JoinLines(body)
      n == Len(toks)
      ok == /\ n % 2 = 1
            /\ \A k \in 1..n : IF k % 2 = 1 THEN toks[k] \in Docs ELSE toks[k] = Comma
  IN  IF ok
      THEN Value(List([k \in 1..((n + 1) \div 2) |-> DecodeDoc(toks[2 * k - 1])]))
      ELSE Raise("DecodeError", TRUE)

\* json.JSONDecoder().decode: the text is exactly one document
JsonDecode(body) ==
  LET toks == ConcatLines(body)
  IN  IF Len(toks) = 1 /\ toks[1] \in Docs
      THEN Value(DecodeDoc(toks[1]))
      ELSE Raise("DecodeError", TRUE)

\* a decoder choice that looks at the body: several lines mean ND-JSON
UseNdjsonBySniffing(r) == Len(r.body) > 1

\* line 54
UseNdjson(r) == r.ctype = "application/x-ndjson"

\* Wandbox._parse_response
ParseResponse(r) == IF UseNdjson(r) THEN NdjsonDecode(r.body) ELSE JsonDecode(r.body)

\* a status test that lets client errors through
RaiseForServerError(r) == 500 <= r.status

\* response.raise_for_status() raises
RaiseForStatus(r) == 400 <= r.status

\* Wandbox._get
Get(i, r) ==
  IF Closed(i) THEN Raise("RuntimeError", FALSE)
  ELSE IF RaiseForStatus(r) THEN Raise("HTTPStatusError", FALSE)
  ELSE ParseResponse(r)

\* Wandbox._post
Post(i, r) ==
  IF Closed(i) THEN Raise("RuntimeError", FALSE)
  ELSE IF RaiseForStatus(r) THEN Raise("HTTPStatusError", FALSE)
  ELSE ParseResponse(r)

\* get_template without the unwrapping
UnwrapNever(v) == Value(v)

\* line 193
Unwrap(v) ==
  IF v.kind = "dict"
  THEN IF "code" \in DOMAIN v.items THEN Value(v.items.code) ELSE Raise("KeyError", TRUE)
  ELSE Value(v)

\* Wandbox.get_template
GetTemplate(i, r) ==
  LET code == Get(i, r)
  IN  IF code.kind = "value" THEN Unwrap(code.value) ELSE code

GetMethods == {"compilers", "get_permlink", "get_user"}
PostMethods == {"compile", "compile_nd", "post_permlink"}
Methods == GetMethods \cup PostMethods \cup {"get_template"}
SampleMethods == {"get_template", "compile"}

\* what endpoint method m hands its caller
Endpoint(i, m, r) ==
  CASE m = "get_template" -> GetTemplate(i, r)
    [] m \in GetMethods -> Get(i, r)
    [] m \in PostMethods -> Post(i, r)

\* a dispatcher that connects before it sends
CallSessionLazy(i) == ConnectSession(i) /\ ConnectRegister(i)

\* lines 69 and 83: the request goes through self.session as it is
CallSession(i) == UNCHANGED <<session, openT, active>>

\* an endpoint method called on instance i, the remote answering r
Call(i, m, r) ==
  /\ phase = "run"
  /\ session[i] # None
  /\ CallSession(i)
  /\ last' = [op |-> "call", inst |-> i, method |-> m,
              resp |-> IF Closed(i) THEN NoResp ELSE r,
              out |-> Endpoint(i, m, r)]
  /\ UNCHANGED <<closing, phase, hookList, htask, failed>>

\* ------------------------------------------------------- specifications
Init ==
  /\ session = [i \in Inst |-> None]
  /\ openT = [i \in Inst |-> {}]
  /\ active = <<>>
  /\ closing = [i \in Inst |-> 0]
  /\ phase = "run"
  /\ hookList = <<>>
  /\ htask = [i \in Inst |-> "none"]
  /\ failed = FALSE
  /\ last = Op("start", None)

Next ==
  \/ \E i \in Inst : Construct(i)
  \/ \E i \in Inst : Connect(i)
  \/ \E i \in Inst : CloseBegin(i)
  \/ \E i \in Inst : CloseResume(i)
  \/ \E i \in Inst : CloseFail(i)
  \/ \E i \in Inst : \E m \in SampleMethods : \E r \in SampleResponses : Call(i, m, r)
  \/ HookStart
  \/ \E i \in Inst : HookStep(i)
  \/ \E i \in Inst : HookResume(i)
  \/ \E i \in Inst : HookFail(i)
  \/ HookReturn
  \/ HookRaise

Spec == Init /\ [][Next]_vars

\* The dispatcher alone: every instance constructed and open, and one endpoint
\* call about to be made, of any method, the remote answering with any response.
InitDispatch ==
  /\ session = [i \in Inst |-> 1]
  /\ openT = [i \in Inst |-> {1}]
  /\ active = [i \in Inst |-> i]
  /\ closing = [i \in Inst |-> 0]
  /\ phase = "run"
  /\ hookList = <<>>
  /\ htask = [i \in Inst |-> "none"]
  /\ failed = FALSE
  /\ last \in [op : {"request"}, inst : Inst, method : Methods, resp : Responses,
               out : {NoOut}]

NextDispatch == last.op = "request" /\ Call(last.inst, last.method, last.resp)

SpecDispatch == InitDispatch /\ [][NextDispatch]_vars

\* --------------------------------------------------------------- claims
\* C1: whatever came before, right after connect() returns the instance has
\* exactly one open transport, its current one, and is in the registry exactly
\* once; connect() on an open instance keeps its transport, and connect() on a
\* closed one gives it a new, open one.
ConnectIdempotent ==
  [][\A i \in Inst :
       (last'.op = "connect" /\ last'.inst = i) =>
         /\ openT'[i] = {session'[i]}
         /\ Count(active', i) = 1
         /\ (~Closed(i) => session'[i] = session[i] /\ openT'[i] = openT[i])
         /\ (Closed(i) => session'[i] # session[i])]_vars

\* connect() has reopened a closed instance
ConnectReopened ==
  /\ last.op = "connect"
  /\ session[last.inst] # 1
  /\ ~Closed(last.inst)
  /\ Count(active, last.inst) = 1

\* C2: close() on an instance whose transport is closed changes nothing (the
\* transports, the registry, the closes in flight) and raises nothing, however
\* many times it is called.
CloseClosedIsNoop ==
  [][\A i \in Inst :
       (last'.op = "close" /\ last'.inst = i /\ Closed(i)) =>
         UNCHANGED <<session, openT, active, closing, failed>>]_vars

\* close() has just returned at once on a closed instance
CloseWasNoop ==
  /\ last.op = "close"
  /\ Closed(last.inst)
  /\ closing[last.inst] = 0
  /\ ~Registered(last.inst)

\* C3: once the exit hook has returned, every close it started has ended, and
\* when no close has failed the registry is empty and no transport is open.
ExitHookClosesAll ==
  phase = "returned" =>
    /\ \A i \in Range(hookList) : htask[i] = "done"
    /\ ~failed => (active = <<>> /\ \A i \in Inst : openT[i] = {})

\* C4 as stated: a response whose status is not 2xx makes every endpoint method
\* fail with an HTTP status error, nothing decoded and nothing returned.
NonSuccessRaises ==
  (last.op = "call" /\ ~(200 <= last.resp.status /\ last.resp.status <= 299)) =>
    last.out = Raise("HTTPStatusError", FALSE)

\* C4 amended: a response whose status is 400 or more makes every endpoint
\* method fail with an HTTP status error, nothing decoded and nothing returned;
\* a response whose status is below 400 never does, and is decoded.
ErrorStatusRaises ==
  last.op = "call" =>
    IF 400 <= last.resp.status
    THEN last.out = Raise("HTTPStatusError", FALSE)
    ELSE last.out.kind # "HTTPStatusError" /\ last.out.decoded

\* an endpoint method has failed on a 404
NotFoundRaised ==
  /\ last.op = "call"
  /\ last.resp.status = 404
  /\ last.out = Raise("HTTPStatusError", FALSE)

RaiseAfterAllClosed ==
  phase = "raised" => \A i \in Inst : htask[i] # "cancelled"

\* C8 as stated: constructing a client creates no transport and registers
\* nothing, and an endpoint call never runs on a closed transport: it gets an
\* open one first.
LazyTransport ==
  /\ last.op = "init" => (openT[last.inst] = {} /\ ~Registered(last.inst))
  /\ last.op = "call" => ~Closed(last.inst)

\* C8 amended: constructing a client creates its transport, open, and
\* registers the instance; an endpoint call creates and reopens nothing: on a
\* closed transport it fails with the session's RuntimeError, and only then.
EagerTransport ==
  /\ last.op = "init" =>
       (openT[last.inst] = {session[last.inst]} /\ Count(active, last.inst) = 1)
  /\ last.op = "call" => (Closed(last.inst) <=> last.out.kind = "RuntimeError")

\* an endpoint call has failed on a closed transport
CallOnClosedFailed ==
  /\ last.op = "call"
  /\ Closed(last.inst)
  /\ last.out = Raise("RuntimeError", FALSE)

\* C9: an operation on one instance (construction, connect, close, an endpoint
\* call) changes no other instance's transport, open or closed, nor its place
\* in the registry.
InstancesIndependent ==
  [][\A i \in Inst : \A j \in Inst \ {i} :
       (last'.op # "atexit" /\ last'.inst = i) =>
         /\ session'[j] = session[j]
         /\ openT'[j] = openT[j]
         /\ Count(active', j) = Count(active, j)]_vars

\* a close has completed on one instance while another stays open and registered
ClosedBesideOpen ==
  /\ last.op = "close_done"
  /\ \E j \in Inst \ {last.inst} : ~Closed(j) /\ Registered(j) /\ active[1] = j

\* C10: while the program runs, an instance that has an open transport and no
\* close() in flight is in the registry.
OpenImpliesRegistered ==
  phase = "run" =>
    \A i \in Inst : (closing[i] = 0 /\ session[i] # None /\ ~Closed(i)) => Registered(i)

====
